---- MODULE Spec2Model ----
(***************************************************************************)
(* Request dispatch and scoring core of the REAL evaluation harness.       *)
(*                                                                         *)
(*   request_manager/request_manager.py  process_batch, _process_request   *)
(*   request_manager/api_actions.py      do_request_on, extract_content    *)
(*   worker.py                           Worker.Job.invoke                 *)
(*   dataset_models.py                   ResponseSet.judge                 *)
(*   judgers/presets.py                  STRICT_MATCH, MODEL_SCORING       *)
(*   text_preprocessors.py               as_is, mcq_preprocessor           *)
(*                                                                         *)
(* Coroutines are cut at their suspension points (an awaited POST, an      *)
(* awaited sleep, an awaited semaphore, an awaited comparator); everything *)
(* between two suspension points is one action.                            *)
(***************************************************************************)
EXTENDS Integers, Sequences, FiniteSets, TLC

\* ---------------------------------------------------------------- bounds
\* longest request list handed to the first process_batch call
MaxReq == 2
\* largest SCORING_BATCH_SIZE tried when judge calls run concurrently
MaxScoringCap == 2
\* longest list of query records a QuerySet is built from
MaxQueries == 2
\* most rows of the file store_to appends to
MaxFileRows == 2
\* longest list of records handed to store_to
MaxStore == 2
\* longest string handed to TEXT_SIMILARITY
MaxStr == 3
\* longest reply of the judge model, in characters
MaxReply == 3
\* largest value of the BATCH_SIZE setting that is explored
MaxCap == 2
\* most records in a ResponseSet built from literals
MaxRec == 2

\* ------------------------------------------------------ program constants
MAX_ATTEMPTS == 3
FALLBACK_ERR_MSG == "Unknown error in processing request"
NONE_CONTENT_ERROR_MSG == "Received None content."
JUDGE_FAILED_MSG == "Judge failed."
\* positional parameters of extract_content, and arguments at its call site
ExtractContentParams == 1
ExtractContentArgs == 2

\* ------------------------------------------------------- Python values
\* A Python value that ends up in a record field: a str, the one-key dict
\* {"content": s}, or a number.  Values of different kinds are never equal,
\* as in Python.
PyStr(x) == [kind |-> "str", s |-> x, n |-> 0]
PyDict(x) == [kind |-> "dict", s |-> x, n |-> 0]
PyNum(x) == [kind |-> "num", s |-> "", n |-> x]

\* FALLBACK of _do_request: a dict, not the bare message
FALLBACK == PyDict(FALLBACK_ERR_MSG)

\* ------------------------------------------------------- HTTP bodies
\* The parsed JSON body of a 200 response, by shape.
Contents == {"A", "B"}
ChatBody(c) == [shape |-> "chat", content |-> c]
NullContentBody == [shape |-> "nullcontent", content |-> ""]
NoChoicesBody == [shape |-> "nochoices", content |-> ""]
EmptyObjBody == [shape |-> "emptyobj", content |-> ""]
Bodies == {ChatBody(c) : c \in Contents} \cup {NullContentBody, NoChoicesBody, EmptyObjBody}
\* do_request_on returned None
NoResponse == [shape |-> "none", content |-> ""]
\* do_request_on raised
RaisedResponse == [shape |-> "raised", content |-> ""]
\* do_request_on has not returned yet
PendingResponse == [shape |-> "pending", content |-> ""]

\* Python truth value of what do_request_on returned ("if response:")
Truthy(response) == response.shape \notin {"none", "emptyobj"}

extract_content(OAI_response) ==
    CASE OAI_response.shape = "chat" -> PyStr(OAI_response.content)
      [] OAI_response.shape = "nullcontent" -> PyStr(NONE_CONTENT_ERROR_MSG)
      [] OTHER -> PyStr("")

\* the call extract_content(response, enable_metrics) raises TypeError when
\* the argument count differs from the parameter count
ExtractCallRaises == ExtractContentArgs # ExtractContentParams

\* _do_request: the value a dispatch task returns for what do_request_on gave
do_request(response) ==
    IF response.shape = "raised" THEN FALLBACK
    ELSE IF Truthy(response)
         THEN IF ExtractCallRaises THEN FALLBACK ELSE extract_content(response)
         ELSE FALLBACK

\* ------------------------------------------------------- dispatch state
Batches == {1, 2}
\* the second, concurrent process_batch call carries at most one request
MaxLen(b) == IF b = 1 THEN MaxReq ELSE 1
Tasks == {t \in Batches \X (1..MaxReq) : t[2] <= MaxLen(t[1])}
NoTask == <<0, 0>>

FailKinds == {"non2xx", "timeout", "empty200", "clientError", "other"}

VARIABLES
    cap,          \* MAX_CONCURRENT_REQUESTS (BATCH_SIZE); 0: no semaphore
    semValue,     \* free permits of the process-wide semaphore
    blen,         \* blen[b]: len(request_list) of call b
    bpc,          \* bpc[b]: "idle", "gathering" (session open), "returned"
    tpc,          \* tpc[t]: "none", "created", "post", "sleepInner", "sleepOuter", "done"
    attempt,      \* attempt[t]: loop variable of do_request_on
    fut,          \* fut[t]: what task t returned, tagged with its position
    outcome,      \* outcome[t]: what do_request_on gave task t
    responses,    \* responses[b]: the list process_batch returned
    outOfOrder,   \* outOfOrder[b]: some task finished before an earlier one
    serverBodies, \* the bodies the backend sends with status 200
    obs,          \* the request whose attempts are recorded below
    obsHist,      \* kind of every failed attempt so far, "mixed", or "none"
    obsPosts,     \* POSTs issued for obs
    obsSleeps,    \* sleeps since the last failed attempt of obs
    obsBackoff,   \* sleeps that took place before the current attempt of obs
    obsFails,     \* failed attempts of obs
    obsWarnings,  \* logger.warning calls made for obs
    rs,           \* ResponseSet.responses: the list of records, or <<>> before it exists
    rsReady,      \* the ResponseSet has been built
    prep,         \* response_preprocessor handed to judge
    judger,       \* judger handed to judge
    jpc,          \* jpc[p]: "idle", "loop", "comparing", "returned", "none", "raised"
    ji,           \* ji[p]: position of resp_obj in the loop of judge
    score,        \* score[p]: local of judge
    full_score,   \* full_score[p]: local of judge
    skipped,      \* skipped[p]: the records pass p skipped, each with the reason
    written,      \* written[p]: the score pass p wrote, by record position
    summary,      \* summary[p]: the dict judge returned
    lastPass,     \* the judge pass called last
    judgeSem,     \* judgeSem[p]: free permits of the semaphore judge call p created
    context_key,  \* context_key handed to judge
    scoringCap,   \* SCORING_BATCH_SIZE; 0: no semaphore
    gathered,     \* the caller runs the judge calls concurrently instead of awaiting each
    heap,         \* the dict objects of the QuerySets, by address
    qsets,        \* the QuerySet objects held: qsets[1] the first one, qsets[2] the latest derived
    qsnap,        \* qsnap[k]: records and path of qsets[k] when it was built
    qlast,        \* the last QuerySet operation and how it ended
    buckets,      \* the dict the last divide_by_keys returned
    file,         \* the structured file store_to writes to: header and rows
    fileAtCall,   \* the file as store_to found it
    data_list,    \* self.responses handed to the writer
    writer,       \* the writer get_writer chose: "csv" or "xlsx"
    spc,          \* store_to: "off", "idle", "writing", "pausing", "done", "raised"
    sloop,        \* iterations of the loop of store_to started so far
    retry,        \* local retry of store_to
    writes,       \* writer invocations
    ioErrors,     \* writer invocations that raised IOError
    slept,        \* seconds slept by store_to
    sinceWrite,   \* seconds slept since the last writer invocation
    simResponse,  \* TEXT_SIMILARITY: response, a sequence of characters
    simAnswer,    \* TEXT_SIMILARITY: answer
    simResult,    \* what TEXT_SIMILARITY gave
    msConfigured, \* SCORING_MODEL, SCORING_API_BASE_URL and SCORING_API_KEY are set
    msArgs,       \* preprocessed_response, preprocessed_answer and context of _judge_single_resp_obj
    msPrompt,     \* the scoring query model_scoring built
    msOutcome,    \* what do_request_on gave the single_request of model_scoring
    msResult,     \* what MODEL_SCORING gave
    bag,          \* the caller's request_params dict
    bagAtCall,    \* the same dict before the first request body was built
    built         \* what make_request_body gave for each request so far

dvars == <<cap, semValue, blen, bpc, tpc, attempt, fut, outcome, responses, outOfOrder, serverBodies>>
ovars == <<obs, obsHist, obsPosts, obsSleeps, obsBackoff, obsFails, obsWarnings>>
jvars == <<rs, rsReady, prep, judger, jpc, ji, score, full_score, skipped, written, summary, lastPass, judgeSem>>
\* what the caller and the environment fix before judge runs
cvars == <<context_key, scoringCap, gathered>>
qvars == <<heap, qsets, qsnap, qlast, buckets>>
svars == <<file, fileAtCall, data_list, writer, spc, sloop, retry, writes, ioErrors, slept, sinceWrite>>
mvars == <<msConfigured, msArgs, msPrompt, msOutcome, msResult>>
bvars == <<bag, bagAtCall, built>>
tvars == <<simResponse, simAnswer, simResult, mvars, bvars>>
xvars == <<cvars, qvars, svars, tvars>>
vars == <<dvars, ovars, jvars, xvars>>

NoResult == [of |-> 0, val |-> PyStr("")]

\* the two judge passes made over one ResponseSet
Passes == {1, 2}
NoSummary == [eval_name |-> "", score |-> 0, full_score |-> 0, accuracy |-> <<0, 0>>]

\* no judge call has been made
JudgeNotStarted ==
    /\ jpc = [p \in Passes |-> "idle"]
    /\ ji = [p \in Passes |-> 0]
    /\ score = [p \in Passes |-> 0]
    /\ full_score = [p \in Passes |-> 0]
    /\ skipped = [p \in Passes |-> {}]
    /\ written = [p \in Passes |-> {}]
    /\ summary = [p \in Passes |-> NoSummary]
    /\ lastPass = 0
    /\ judgeSem = [p \in Passes |-> 0]

\* Python's None where a key name or a path is expected
None == ""

\* SCORING_BATCH_SIZE when the environment does not set it
SCORING_BATCH_SIZE == 5

\* judge called without context_key, one call awaited after the other,
\* with the default scoring cap
DefaultJudgeArgs ==
    /\ context_key = None
    /\ scoringCap = SCORING_BATCH_SIZE
    /\ gathered = FALSE

\* RequestResourceManager.__new__: a semaphore only for a positive size
HasSemaphore == cap > 0

\* no QuerySet operation so far
NoOp == [op |-> "none", status |-> "none", target |-> 0,
         keys |-> <<>>, name |-> "", flag |-> FALSE]
NoBuckets == <<>>

\* no QuerySet has been built
NoQuerySet ==
    /\ heap = <<>>
    /\ qsets = <<>>
    /\ qsnap = <<>>
    /\ qlast = NoOp
    /\ buckets = NoBuckets

\* a file that does not exist
NoFile == [exists |-> FALSE, columns |-> <<>>, rows |-> <<>>]

\* store_to is not called
NoStore ==
    /\ file = NoFile
    /\ fileAtCall = NoFile
    /\ data_list = <<>>
    /\ writer = "csv"
    /\ spc = "off"
    /\ sloop = 0
    /\ retry = 0
    /\ writes = 0
    /\ ioErrors = 0
    /\ slept = 0
    /\ sinceWrite = 0

NotComputed == [status |-> "none", num |-> 0, den |-> 0]

\* no scoring query has been built
NoPrompt == [Response |-> "", Question |-> "", Answer |-> ""]

\* MODEL_SCORING is not called
NoScoring ==
    /\ msConfigured = FALSE
    /\ msArgs = [response |-> "", answer |-> "", context |-> ""]
    /\ msPrompt = NoPrompt
    /\ msOutcome = PendingResponse
    /\ msResult = NotComputed

\* no request body is built
NoBody ==
    /\ bag = <<>>
    /\ bagAtCall = <<>>
    /\ built = <<>>

\* TEXT_SIMILARITY is not called, nor MODEL_SCORING, nor make_request_body
NoSimilarity ==
    /\ simResponse = <<>>
    /\ simAnswer = <<>>
    /\ simResult = NotComputed
    /\ NoScoring
    /\ NoBody

\* the data side when only requests and scores are at stake
NoData == NoQuerySet /\ NoStore /\ NoSimilarity

\* The state before any process_batch call: the request lists, the 200
\* bodies the backend can send and the observed request are given.
InitDispatchWith(caps, lens, bodySets, observed) ==
    /\ cap \in caps
    /\ semValue = cap
    /\ blen \in lens
    /\ serverBodies \in bodySets
    /\ bpc = [b \in Batches |-> "idle"]
    /\ tpc = [t \in Tasks |-> "none"]
    /\ attempt = [t \in Tasks |-> 0]
    /\ fut = [t \in Tasks |-> NoResult]
    /\ outcome = [t \in Tasks |-> PendingResponse]
    /\ responses = [b \in Batches |-> <<>>]
    /\ outOfOrder = [b \in Batches |-> FALSE]
    /\ obs = (IF observed /\ blen[1] > 0 THEN <<1, 1>> ELSE NoTask)
    /\ obsHist = "none"
    /\ obsPosts = 0
    /\ obsSleeps = 0
    /\ obsBackoff = 0
    /\ obsFails = 0
    /\ obsWarnings = 0

\* the scoring side when no ResponseSet exists
NoJudge ==
    /\ rs = <<>>
    /\ rsReady = FALSE
    /\ prep = "as_is"
    /\ judger = "STRICT_MATCH"
    /\ JudgeNotStarted
    /\ DefaultJudgeArgs

AllLens == {f \in [Batches -> 0..MaxReq] : \A b \in Batches : f[b] <= MaxLen(b)}
OneBatchLens == {f \in AllLens : f[2] = 0}

\* two process_batch calls in one process; the backend answers 200 with a
\* well-formed body or fails
InitDispatch == InitDispatchWith(0..MaxCap, AllLens, {{ChatBody("A")}}, FALSE) /\ NoJudge /\ NoData

\* one process_batch call; the backend answers 200 with any body or fails
InitBatch == InitDispatchWith(0..MaxCap, OneBatchLens, {Bodies}, FALSE) /\ NoJudge /\ NoData

\* one process_batch call, the attempts of its first request recorded
InitRetry == InitDispatchWith(0..MaxCap, OneBatchLens, {{ChatBody("A")}}, TRUE) /\ NoJudge /\ NoData

\* one or two process_batch calls over at most MaxReq requests in all
InitLive ==
    /\ InitDispatchWith(0..MaxCap, {f \in AllLens : f[1] + f[2] <= MaxReq}, {{ChatBody("A")}}, FALSE)
    /\ NoJudge
    /\ NoData

\* ------------------------------------------------------- process_batch
\* process_batch up to "await asyncio.gather": the session is opened and one
\* task per request is created
ProcessBatch(b) ==
    /\ bpc[b] = "idle"
    /\ bpc' = [bpc EXCEPT ![b] = "gathering"]
    /\ tpc' = [t \in Tasks |-> IF t[1] = b /\ t[2] <= blen[b] THEN "created" ELSE tpc[t]]
    /\ UNCHANGED <<xvars, jvars, cap, serverBodies, semValue, blen, attempt, fut, outcome, responses, outOfOrder, ovars>>

\* asyncio.Semaphore.acquire without waiting
SemCanAcquireAlways == TRUE
SemCanAcquire == semValue > 0

\* entering "async with semaphore" without taking a permit
SemAfterAcquireFree == semValue
SemAfterAcquire == IF HasSemaphore THEN semValue - 1 ELSE semValue
\* leaving "async with semaphore" without giving the permit back
SemAfterReleaseLeak == semValue
SemAfterRelease == IF HasSemaphore THEN semValue + 1 ELSE semValue

\* _process_request: "async with semaphore", then _do_request runs up to the
\* first awaited POST of do_request_on
AcquireAndPost(t) ==
    /\ tpc[t] = "created"
    /\ HasSemaphore => SemCanAcquire
    /\ semValue' = SemAfterAcquire
    /\ tpc' = [tpc EXCEPT ![t] = "post"]
    /\ attempt' = [attempt EXCEPT ![t] = 0]
    /\ obsPosts' = IF t = obs THEN obsPosts + 1 ELSE obsPosts
    /\ UNCHANGED <<xvars, jvars, cap, serverBodies, blen, bpc, fut, outcome, responses, outOfOrder,
                   obs, obsHist, obsSleeps, obsBackoff, obsFails, obsWarnings>>

\* a task returns: its result is stored and the permit is given back
EarlierUnfinished(t) == \E u \in Tasks : u[1] = t[1] /\ u[2] < t[2] /\ tpc[u] # "done"

Finish(t, response) ==
    /\ tpc' = [tpc EXCEPT ![t] = "done"]
    /\ outcome' = [outcome EXCEPT ![t] = response]
    /\ fut' = [fut EXCEPT ![t] = [of |-> t[2], val |-> do_request(response)]]
    /\ semValue' = SemAfterRelease
    /\ outOfOrder' = [outOfOrder EXCEPT ![t[1]] = @ \/ EarlierUnfinished(t)]

\* bookkeeping of a failed attempt of the observed request
ObsFailed(t, kind, warned) ==
    /\ obsHist' = IF t # obs THEN obsHist
                  ELSE IF obsHist \in {"none", kind} THEN kind ELSE "mixed"
    /\ obsSleeps' = IF t = obs THEN 0 ELSE obsSleeps
    /\ obsFails' = IF t = obs THEN obsFails + 1 ELSE obsFails
    /\ obsWarnings' = IF t = obs /\ warned THEN obsWarnings + 1 ELSE obsWarnings

\* line 42-45: status 200 and a body that is not None
Respond200(t, body) ==
    /\ tpc[t] = "post"
    /\ Finish(t, body)
    /\ UNCHANGED <<xvars, jvars, cap, serverBodies, blen, bpc, attempt, responses, ovars>>

\* line 47-52 with "attempt < MAX_ATTEMPTS" always true inside the loop:
\* a warning, then on to the sleep of line 91
Respond200Empty(t) ==
    /\ tpc[t] = "post"
    /\ tpc' = [tpc EXCEPT ![t] = "sleepOuter"]
    /\ ObsFailed(t, "empty200", TRUE)
    /\ UNCHANGED <<xvars, jvars, cap, serverBodies, semValue, blen, bpc, attempt, fut, outcome, responses, outOfOrder,
                   obs, obsPosts, obsBackoff>>

\* line 55-61: another status; "if attempt < MAX_ATTEMPTS" a warning and
\* the sleep of line 58, else an error and "return None"
RespondNon2xx(t) ==
    /\ tpc[t] = "post"
    /\ IF attempt[t] < MAX_ATTEMPTS
       THEN /\ tpc' = [tpc EXCEPT ![t] = "sleepInner"]
            /\ UNCHANGED <<semValue, fut, outcome, outOfOrder>>
       ELSE Finish(t, NoResponse)
    /\ ObsFailed(t, "non2xx", attempt[t] < MAX_ATTEMPTS)
    /\ UNCHANGED <<xvars, jvars, cap, serverBodies, blen, bpc, attempt, responses,
                   obs, obsPosts, obsBackoff>>

\* line 64-67: asyncio.TimeoutError; a warning and the sleep of line 67
PostTimeout(t) ==
    /\ tpc[t] = "post"
    /\ tpc' = [tpc EXCEPT ![t] = "sleepInner"]
    /\ ObsFailed(t, "timeout", TRUE)
    /\ UNCHANGED <<xvars, jvars, cap, serverBodies, semValue, blen, bpc, attempt, fut, outcome, responses, outOfOrder,
                   obs, obsPosts, obsBackoff>>

\* line 73-78: ClientError; a warning, then "return None" whatever the attempt
PostClientError(t) ==
    /\ tpc[t] = "post"
    /\ Finish(t, NoResponse)
    /\ ObsFailed(t, "clientError", TRUE)
    /\ UNCHANGED <<xvars, jvars, cap, serverBodies, blen, bpc, attempt, responses, obs, obsPosts, obsBackoff>>

\* line 81-87: any other exception.  The warning of line 84 reads
\* response.status and response.text(): when that works the loop goes on to
\* line 91, when it raises (response unbound or closed) the exception leaves
\* do_request_on and _do_request catches it.
PostOtherError(t, logWorks) ==
    /\ tpc[t] = "post"
    /\ IF logWorks
       THEN /\ tpc' = [tpc EXCEPT ![t] = "sleepOuter"]
            /\ UNCHANGED <<semValue, fut, outcome, outOfOrder>>
       ELSE Finish(t, RaisedResponse)
    /\ ObsFailed(t, "other", logWorks)
    /\ UNCHANGED <<xvars, jvars, cap, serverBodies, blen, bpc, attempt, responses, obs, obsPosts, obsBackoff>>

\* the sleep of line 58 or 67 ends; line 90-91 follows
SleepInnerDone(t) ==
    /\ tpc[t] = "sleepInner"
    /\ tpc' = [tpc EXCEPT ![t] = "sleepOuter"]
    /\ obsSleeps' = IF t = obs THEN obsSleeps + 1 ELSE obsSleeps
    /\ UNCHANGED <<xvars, jvars, cap, serverBodies, semValue, blen, bpc, attempt, fut, outcome, responses, outOfOrder,
                   obs, obsHist, obsPosts, obsBackoff, obsFails, obsWarnings>>

\* "for attempt in range(MAX_ATTEMPTS)": is there an iteration after a?
HasNextAttemptOneMore(a) == a + 1 <= MAX_ATTEMPTS
HasNextAttempt(a) == a + 1 < MAX_ATTEMPTS

\* the sleep of line 91 ends: the next iteration POSTs again, or the loop is
\* over and line 93 returns None
SleepOuterDone(t) ==
    /\ tpc[t] = "sleepOuter"
    /\ obsSleeps' = IF t = obs THEN obsSleeps + 1 ELSE obsSleeps
    /\ IF HasNextAttempt(attempt[t])
       THEN /\ attempt' = [attempt EXCEPT ![t] = @ + 1]
            /\ tpc' = [tpc EXCEPT ![t] = "post"]
            /\ obsPosts' = IF t = obs THEN obsPosts + 1 ELSE obsPosts
            /\ obsBackoff' = IF t = obs THEN obsSleeps + 1 ELSE obsBackoff
            /\ UNCHANGED <<semValue, fut, outcome, outOfOrder>>
       ELSE /\ Finish(t, NoResponse)
            /\ UNCHANGED <<attempt, obsPosts, obsBackoff>>
    /\ UNCHANGED <<xvars, jvars, cap, serverBodies, blen, bpc, responses, obs, obsHist, obsFails, obsWarnings>>

\* asyncio.gather: the results of the tasks in the order of the tasks
gather_reversed(b) == [i \in 1..blen[b] |-> fut[<<b, blen[b] + 1 - i>>]]
gather(b) == [i \in 1..blen[b] |-> fut[<<b, i>>]]

\* process_batch after gather: every task is done, the session is closed
\* and the list is returned
ProcessBatchReturn(b) ==
    /\ bpc[b] = "gathering"
    /\ \A t \in Tasks : (t[1] = b /\ t[2] <= blen[b]) => tpc[t] = "done"
    /\ responses' = [responses EXCEPT ![b] = gather(b)]
    /\ bpc' = [bpc EXCEPT ![b] = "returned"]
    /\ UNCHANGED <<xvars, jvars, cap, serverBodies, semValue, blen, tpc, attempt, fut, outcome, outOfOrder, ovars>>

NextDispatch ==
    \/ \E b \in Batches : ProcessBatch(b)
    \/ \E t \in Tasks : AcquireAndPost(t)
    \/ \E t \in Tasks, body \in serverBodies : Respond200(t, body)
    \/ \E t \in Tasks : Respond200Empty(t)
    \/ \E t \in Tasks : RespondNon2xx(t)
    \/ \E t \in Tasks : PostTimeout(t)
    \/ \E t \in Tasks : PostClientError(t)
    \/ \E t \in Tasks, logWorks \in BOOLEAN : PostOtherError(t, logWorks)
    \/ \E t \in Tasks : SleepInnerDone(t)
    \/ \E t \in Tasks : SleepOuterDone(t)
    \/ \E b \in Batches : ProcessBatchReturn(b)

Spec == InitDispatch /\ [][NextDispatch]_vars
SpecBatch == InitBatch /\ [][NextDispatch]_vars
SpecRetry == InitRetry /\ [][NextDispatch]_vars
\* The event loop runs every coroutine that is ready, and every awaited
\* POST and sleep ends: a step of the dispatcher that can be taken is
\* eventually taken.
SpecLive == InitLive /\ [][NextDispatch]_vars /\ WF_vars(NextDispatch)

\* =================================================================
\* Worker.Job.invoke and ResponseSet.judge
\* =================================================================
\* Records are dicts: functions from field names to Python values.
QueryRecord(answer) == ("query" :> PyStr("q")) @@ ("answer" :> answer)
ResponseRecord(respA, respB, answer) ==
    QueryRecord(answer) @@ ("respA" :> respA) @@ ("respB" :> respB)

\* <<response of the evaluated model, response of a second model, answer>>
RecordTemplates == {
    <<PyStr("A"), PyStr("B"), PyStr("A")>>,
    <<PyStr("b"), PyStr("B"), PyStr("B")>>,
    <<PyStr(FALLBACK_ERR_MSG), PyStr("A"), PyStr("A")>>,
    <<FALLBACK, PyStr(FALLBACK_ERR_MSG), PyStr("A")>>,
    <<PyStr(""), PyStr("B"), PyStr("A")>>,
    <<PyStr("The answer"), PyStr("A"), PyStr("A")>>,
    <<PyStr("A"), PyStr("A"), PyStr("")>> }
RecordChoices == {ResponseRecord(x[1], x[2], x[3]) : x \in RecordTemplates}
RecordLists == UNION {[1..n -> RecordChoices] : n \in 0..MaxRec}

\* ResponseSet(queries, query_key=..., response_key=...) as built by invoke
RsQueryKey == "query"
RsResponseKey == "respA"

\* the arguments of the two judge calls: the first scores the set's own
\* response field, the second a foreign response column
EvalName(p) == IF p = 1 THEN "evalA" ELSE "evalB"
ForeignResponseKey(p) == IF p = 1 THEN None ELSE "respB"
AnswerKey == "answer"
ContextKeyArg == context_key

Preprocessors == {"as_is", "mcq_preprocessor"}
Judgers == {"STRICT_MATCH", "MODEL_SCORING"}

\* a call that raised instead of returning a value
PyRaise == [kind |-> "raise", s |-> "", n |-> 0]

as_is(response) == response

\* mcq_preprocessor on the values of the model: a value that is no str has
\* no .replace and raises; a lone letter is kept and upper-cased; a string
\* whose first and last letters touch other letters gives ""
mcq_preprocessor(response) ==
    IF response.kind # "str" THEN PyRaise
    ELSE CASE response.s = "" -> PyStr("")
           [] response.s = NONE_CONTENT_ERROR_MSG -> response
           [] response.s = "A" -> PyStr("A")
           [] response.s = "B" -> PyStr("B")
           [] response.s = "b" -> PyStr("B")
           [] OTHER -> PyStr("")

Preprocess(f, x) == IF f = "mcq_preprocessor" THEN mcq_preprocessor(x) ELSE as_is(x)

\* _STRICT_MATCH: float(response == answer)
STRICT_MATCH(response, answer) == PyNum(IF response = answer THEN 1 ELSE 0)

\* MODEL_SCORING: what the judge model answers is not decided by the
\* arguments: 0.0, 1.0, the judge-failure message, or an exception
\* (model_scoring's validate_* raising ValueError)
MODEL_SCORING_Results == {PyNum(0), PyNum(1), PyStr(JUDGE_FAILED_MSG), PyRaise}

JudgerResults(j, first, second) ==
    IF j = "STRICT_MATCH" THEN {STRICT_MATCH(first, second)} ELSE MODEL_SCORING_Results

\* resp_obj[key][:50] in the error logs: slicing a dict raises
SliceRaises(v) == v.kind # "str"

\* judge, line 368
ResponseKey(p) == IF ForeignResponseKey(p) # None THEN ForeignResponseKey(p) ELSE RsResponseKey

\* _validate_key_names without the test of answer_key
ValidateKeyNames_NoAnswerCheck(p) ==
    /\ ResponseKey(p) # None
    /\ ResponseKey(p) \in DOMAIN rs[1]
    /\ ContextKeyArg # None => ContextKeyArg \in DOMAIN rs[1]

\* _validate_key_names against the first record
ValidateKeyNames(p) ==
    /\ ResponseKey(p) # None
    /\ ResponseKey(p) \in DOMAIN rs[1]
    /\ AnswerKey \in DOMAIN rs[1]
    /\ ContextKeyArg # None => ContextKeyArg \in DOMAIN rs[1]

\* judge, lines 371-372: context_key falls back to the set's query_key
ContextKey == IF ContextKeyArg = None /\ RsQueryKey # None THEN RsQueryKey ELSE ContextKeyArg

\* lines 420-423: resp_obj[response_key], resp_obj[answer_key] and
\* resp_obj[context_key] raise KeyError on a record without the field
RecordKeyError(resp_obj, response_key, answer_key) ==
    \/ response_key \notin DOMAIN resp_obj
    \/ answer_key \notin DOMAIN resp_obj
    \/ ContextKey # None /\ ContextKey \notin DOMAIN resp_obj

\* _is_skipped_pre_judging: why the record is skipped, "judge" when it is
\* not, "raise" when one of its error logs raises
PreJudging(resp_obj, response_key, answer_key) ==
    LET response == resp_obj[response_key]
        correct_answer == resp_obj[answer_key]
    IN  IF response = PyStr(FALLBACK_ERR_MSG) THEN "skip_fallback"
        ELSE IF Preprocess(prep, response) = PyRaise \/ as_is(correct_answer) = PyRaise
             THEN "skip_preprocess"
        ELSE IF as_is(correct_answer) = PyStr("")
             THEN IF SliceRaises(response) THEN "raise" ELSE "skip_empty_answer"
        ELSE IF Preprocess(prep, response) = PyStr("")
             THEN IF SliceRaises(response) THEN "raise" ELSE "skip_empty_response"
        ELSE "judge"

\* the score deltas of _judge_single_resp_obj
SKIPPED_NoDecrement == <<0, 0>>
SKIPPED == <<0, -1>>
JUDGED(result_score) == <<result_score, 0>>

\* the field the score is written to
ScoreField(eval_name) == "score"

\* line 476-479: resp_obj.update(...)
WriteScore(resp_obj, eval_name, preprocessed_response, s) ==
    ("judged_content" :> preprocessed_response) @@ (ScoreField(eval_name) :> s) @@ resp_obj

NoPassRunning == \A q \in Passes : jpc[q] \notin {"loop", "comparing"}

\* line 377: a semaphore of SCORING_BATCH_SIZE permits, made by every judge call
HasScoringSemaphore == scoringCap # 0
ScoringSemaphore == IF HasScoringSemaphore THEN scoringCap ELSE 0
\* async with semaphore, lines 464-466
ScoringSemCanAcquire(p) == HasScoringSemaphore => judgeSem[p] > 0
ScoringSemAfterAcquire(p) == IF HasScoringSemaphore THEN judgeSem[p] - 1 ELSE judgeSem[p]
ScoringSemAfterRelease(p) == IF HasScoringSemaphore THEN judgeSem[p] + 1 ELSE judgeSem[p]

\* judge up to its loop: empty set and key validation return None
JudgeCall(p) ==
    /\ rsReady
    /\ jpc[p] = "idle"
    /\ gathered \/ NoPassRunning
    /\ lastPass' = p
    /\ IF Len(rs) = 0 \/ ~ValidateKeyNames(p)
       THEN /\ jpc' = [jpc EXCEPT ![p] = "none"]
            /\ UNCHANGED <<ji, score, full_score, judgeSem>>
       ELSE /\ jpc' = [jpc EXCEPT ![p] = "loop"]
            /\ ji' = [ji EXCEPT ![p] = 1]
            /\ score' = [score EXCEPT ![p] = 0]
            /\ full_score' = [full_score EXCEPT ![p] = Len(rs)]
            /\ judgeSem' = [judgeSem EXCEPT ![p] = ScoringSemaphore]
    /\ UNCHANGED <<xvars, dvars, ovars, rs, rsReady, prep, judger, skipped, written, summary>>

\* the loop of judge adds the deltas and goes to the next record
Accumulate(p, delta) ==
    /\ score' = [score EXCEPT ![p] = @ + delta[1]]
    /\ full_score' = [full_score EXCEPT ![p] = @ + delta[2]]
    /\ ji' = [ji EXCEPT ![p] = @ + 1]
    /\ jpc' = [jpc EXCEPT ![p] = "loop"]

Skip(p, why) ==
    /\ Accumulate(p, SKIPPED)
    /\ skipped' = [skipped EXCEPT ![p] = @ \cup {<<ji[p], why>>}]

\* _judge_single_resp_obj up to the awaited judger
JudgeRecord(p) ==
    /\ jpc[p] = "loop"
    /\ ji[p] <= Len(rs)
    /\ IF RecordKeyError(rs[ji[p]], ResponseKey(p), AnswerKey)
       THEN /\ jpc' = [jpc EXCEPT ![p] = "raised"]
            /\ UNCHANGED <<ji, score, full_score, skipped, judgeSem>>
       ELSE LET v == PreJudging(rs[ji[p]], ResponseKey(p), AnswerKey)
            IN  CASE v = "raise" ->
                       /\ jpc' = [jpc EXCEPT ![p] = "raised"]
                       /\ UNCHANGED <<ji, score, full_score, skipped, judgeSem>>
                  [] v = "judge" ->
                       /\ ScoringSemCanAcquire(p)
                       /\ judgeSem' = [judgeSem EXCEPT ![p] = ScoringSemAfterAcquire(p)]
                       /\ jpc' = [jpc EXCEPT ![p] = "comparing"]
                       /\ UNCHANGED <<ji, score, full_score, skipped>>
                  [] OTHER -> Skip(p, v) /\ UNCHANGED judgeSem
    /\ UNCHANGED <<xvars, dvars, ovars, rs, rsReady, prep, judger, written, summary, lastPass>>

\* the judger resolves: judger(preprocessed_answer, preprocessed_response)
ComparatorResolves(p, result) ==
    /\ jpc[p] = "comparing"
    /\ LET resp_obj == rs[ji[p]]
           preprocessed_response == Preprocess(prep, resp_obj[ResponseKey(p)])
           preprocessed_answer == as_is(resp_obj[AnswerKey])
       IN  /\ result \in JudgerResults(judger, preprocessed_answer, preprocessed_response)
           /\ judgeSem' = [judgeSem EXCEPT ![p] = ScoringSemAfterRelease(p)]
           /\ CASE result = PyRaise ->
                     /\ jpc' = [jpc EXCEPT ![p] = "raised"]
                     /\ UNCHANGED <<ji, score, full_score, skipped, rs, written>>
                [] result = PyStr(JUDGE_FAILED_MSG) ->
                     IF SliceRaises(resp_obj[ResponseKey(p)])
                     THEN /\ jpc' = [jpc EXCEPT ![p] = "raised"]
                          /\ UNCHANGED <<ji, score, full_score, skipped, rs, written>>
                     ELSE /\ Skip(p, "skip_judge_failed")
                          /\ UNCHANGED <<rs, written>>
                [] OTHER ->
                     /\ rs' = [rs EXCEPT ![ji[p]] =
                                 WriteScore(resp_obj, EvalName(p), preprocessed_response, result)]
                     /\ written' = [written EXCEPT ![p] = @ \cup {<<ji[p], result>>}]
                     /\ Accumulate(p, JUDGED(result.n))
                     /\ UNCHANGED skipped
    /\ UNCHANGED <<xvars, dvars, ovars, rsReady, prep, judger, summary, lastPass>>

\* score/full_score of lines 386 and 388; <<0, 0>> stands for ZeroDivisionError
Accuracy(s, f) == IF f = 0 THEN <<0, 0>> ELSE <<s, f>>

\* after the loop: the report and the returned dict
JudgeReturn(p) ==
    /\ jpc[p] = "loop"
    /\ ji[p] > Len(rs)
    /\ IF Accuracy(score[p], full_score[p]) = <<0, 0>>
       THEN /\ jpc' = [jpc EXCEPT ![p] = "raised"]
            /\ UNCHANGED summary
       ELSE /\ jpc' = [jpc EXCEPT ![p] = "returned"]
            /\ summary' = [summary EXCEPT ![p] =
                  [eval_name |-> EvalName(p), score |-> score[p],
                   full_score |-> full_score[p],
                   accuracy |-> Accuracy(score[p], full_score[p])]]
    /\ UNCHANGED <<xvars, dvars, ovars, rs, rsReady, prep, judger, ji, score, full_score,
                   skipped, written, lastPass, judgeSem>>

\* Worker.Job.invoke after process_batch returned: every query dict gets
\* its response and the same dicts become the ResponseSet
InvokePostWork ==
    /\ ~rsReady
    /\ bpc[1] = "returned"
    /\ rs' = [i \in 1..Len(rs) |->
                IF i <= Len(responses[1])
                THEN (RsResponseKey :> responses[1][i].val) @@ rs[i]
                ELSE rs[i]]
    /\ rsReady' = TRUE
    /\ UNCHANGED <<xvars, dvars, ovars, prep, judger, jpc, ji, score, full_score,
                   skipped, written, summary, lastPass, judgeSem>>

NextJudge ==
    \/ \E p \in Passes : JudgeCall(p)
    \/ \E p \in Passes : JudgeRecord(p)
    \/ \E p \in Passes : \E result \in MODEL_SCORING_Results \cup {PyNum(0), PyNum(1)} :
          ComparatorResolves(p, result)
    \/ \E p \in Passes : JudgeReturn(p)

NextPipeline ==
    \/ NextDispatch
    \/ InvokePostWork
    \/ NextJudge

\* a ResponseSet built from literals and judged twice
InitJudge ==
    /\ InitDispatchWith({0}, {[b \in Batches |-> 0]}, {{}}, FALSE)
    /\ NoData
    /\ rs \in RecordLists
    /\ rsReady = TRUE
    /\ prep \in Preprocessors
    /\ judger \in Judgers
    /\ JudgeNotStarted
    /\ DefaultJudgeArgs

\* a QuerySet dispatched by Worker.Job.invoke and judged
InitPipeline ==
    /\ InitDispatchWith(0..MaxCap, OneBatchLens, {{ChatBody("A")}}, FALSE)
    /\ NoData
    /\ rs = [i \in 1..blen[1] |-> QueryRecord(PyStr("A"))]
    /\ rsReady = FALSE
    /\ prep \in Preprocessors
    /\ judger \in Judgers
    /\ JudgeNotStarted
    /\ DefaultJudgeArgs

SpecJudge == InitJudge /\ [][NextJudge]_vars
SpecPipeline == InitPipeline /\ [][NextPipeline]_vars

\* records that may lack the response, the answer or the context field;
\* the third one holds the transport-failure sentinel
KeyedRecord == ResponseRecord(PyStr("A"), PyStr("B"), PyStr("A")) @@ ("ctx" :> PyStr("c"))
WithoutField(rec, field) == [k \in (DOMAIN rec) \ {field} |-> rec[k]]
KeyedRecordChoices == {
    KeyedRecord,
    WithoutField(KeyedRecord, "respA"),
    ("respA" :> PyStr(FALLBACK_ERR_MSG)) @@ KeyedRecord,
    WithoutField(KeyedRecord, "answer"),
    WithoutField(KeyedRecord, "ctx") }
KeyedRecordLists == UNION {[1..n -> KeyedRecordChoices] : n \in 0..MaxRec}

\* a hand-built ResponseSet whose records need not have every field,
\* judged with or without a context_key
InitJudgeKeys ==
    /\ InitDispatchWith({0}, {[b \in Batches |-> 0]}, {{}}, FALSE)
    /\ NoData
    /\ rs \in KeyedRecordLists
    /\ rsReady = TRUE
    /\ prep = "as_is"
    /\ judger \in Judgers
    /\ JudgeNotStarted
    /\ context_key \in {None, "ctx"}
    /\ scoringCap = SCORING_BATCH_SIZE
    /\ gathered = FALSE

\* the two judge calls gathered by the caller, under a small scoring cap
InitScoring ==
    /\ InitDispatchWith({0}, {[b \in Batches |-> 0]}, {{}}, FALSE)
    /\ NoData
    /\ rs \in RecordLists
    /\ rsReady = TRUE
    /\ prep = "as_is"
    /\ judger \in Judgers
    /\ JudgeNotStarted
    /\ context_key = None
    /\ scoringCap \in 0..MaxScoringCap
    /\ gathered = TRUE

SpecJudgeKeys == InitJudgeKeys /\ [][NextJudge]_vars
SpecScoring == InitScoring /\ [][NextJudge]_vars

\* =================================================================
\* QuerySet: slicing, divide, divide_by_keys, merge_keys, mcq_shuffle
\* =================================================================
\* Query records are dicts from field names to strings. A QuerySet object
\* is its list of dict addresses and its source-path tag: two QuerySets
\* that hold the same address share the dict.
QueryTemplates == {
    [discipline |-> "math", field |-> "algebra", A |-> "x", B |-> "y", answer |-> "A"],
    [discipline |-> "math", A |-> "y", B |-> "x", answer |-> "B"] }
QueryLists == UNION {[1..n -> QueryTemplates] : n \in 0..MaxQueries}
FilePaths == {None, "mmlu.csv"}

Range(f) == {f[i] : i \in DOMAIN f}

\* the records of QuerySet object x, read through the heap h
RecordsOf(x, h) == [i \in 1..Len(x.queries) |-> h[x.queries[i]]]
Snapshot(x, h) == [queries |-> RecordsOf(x, h), file_path |-> x.file_path]

\* QuerySet.__init__ on a list of dicts: the list itself is kept
QuerySetOf(addrs, path) == [queries |-> addrs, file_path |-> path]

\* get_queries without copy.deepcopy: the very dicts of the set
get_queries_alias(x) == [list |-> x.queries, heap |-> heap]

\* get_queries: copy.deepcopy(self.queries), fresh dicts with the same fields
get_queries(x) ==
    [list |-> [i \in 1..Len(x.queries) |-> Len(heap) + i],
     heap |-> heap \o RecordsOf(x, heap)]

\* writes through a list of addresses: h with records[i] stored at list[i]
StoreAll(h, list, records) ==
    [a \in 1..Len(h) |->
        IF \E i \in 1..Len(list) : list[i] = a
        THEN records[CHOOSE i \in 1..Len(list) : list[i] = a]
        ELSE h[a]]

\* what is left of a heap when the dicts made by a call that raised are dropped
KeepOld(h) == [a \in 1..Len(heap) |-> h[a]]

\* The caller holds the first QuerySet and the one it derived last; the
\* dicts no held QuerySet refers to are dropped and the addresses of the
\* derived set's own dicts renumbered.
OwnAddrs(x) == {a \in Range(x.queries) : a > Len(qsets[1].queries)}
RankIn(a, addrs) == Cardinality({b \in addrs : b <= a})
Renumber(a, x) ==
    IF a <= Len(qsets[1].queries) THEN a
    ELSE Len(qsets[1].queries) + RankIn(a, OwnAddrs(x))
LiveHeap(h, x) ==
    [a \in 1..(Len(qsets[1].queries) + Cardinality(OwnAddrs(x))) |->
        IF a <= Len(qsets[1].queries) THEN h[a]
        ELSE h[CHOOSE b \in OwnAddrs(x) : Renumber(b, x) = a]]
Held(x) == QuerySetOf([i \in 1..Len(x.queries) |-> Renumber(x.queries[i], x)], x.file_path)

\* the caller keeps QuerySet x, built over heap h, as its derived set
Keep(x, h) ==
    /\ heap' = LiveHeap(h, x)
    /\ qsets' = <<qsets[1], Held(x)>>
    /\ qsnap' = <<qsnap[1], Snapshot(x, h)>>

RECURSIVE JoinWith(_, _)
\* sep.join(items)
JoinWith(sep, items) ==
    IF Len(items) = 0 THEN ""
    ELSE IF Len(items) = 1 THEN items[1]
    ELSE items[1] \o sep \o JoinWith(sep, Tail(items))

\* merge_keys, line 179-181: the merged field of one record
MergedValue(query, key_list_to_merge, with_key_names) ==
    JoinWith("\n", [j \in 1..Len(key_list_to_merge) |->
        IF with_key_names
        THEN key_list_to_merge[j] \o ": " \o query[key_list_to_merge[j]]
        ELSE query[key_list_to_merge[j]]])

HasKeys(query, key_list) == \A j \in 1..Len(key_list) : key_list[j] \in DOMAIN query

\* merge_keys that checks nothing and reads a missing key as "None"
MergeKeys_Lenient(updated_query, key_list_to_merge, merged_key_name, with_key_names) ==
    [raised |-> FALSE,
     records |-> [i \in 1..Len(updated_query) |->
        LET filled == [k \in Range(key_list_to_merge) \cup DOMAIN updated_query[i] |->
                          IF k \in DOMAIN updated_query[i] THEN updated_query[i][k] ELSE "None"]
        IN (merged_key_name :> MergedValue(filled, key_list_to_merge, with_key_names))
           @@ updated_query[i]]]

\* merge_keys on the copied records: updated_query[0] raises IndexError on
\* an empty set, a key absent from the first record raises KeyError before
\* the loop, a key absent from a later record raises KeyError in the loop,
\* after the records before it got their merged field
MergeKeys(updated_query, key_list_to_merge, merged_key_name, with_key_names) ==
    IF Len(key_list_to_merge) > 0 /\ Len(updated_query) = 0
    THEN [raised |-> TRUE, records |-> updated_query]
    ELSE IF Len(updated_query) > 0 /\ ~HasKeys(updated_query[1], key_list_to_merge)
    THEN [raised |-> TRUE, records |-> updated_query]
    ELSE LET bad == {i \in 1..Len(updated_query) : ~HasKeys(updated_query[i], key_list_to_merge)}
             stop == IF bad = {} THEN Len(updated_query) + 1
                     ELSE CHOOSE i \in bad : \A j \in bad : i <= j
         IN [raised |-> bad # {},
             records |-> [i \in 1..Len(updated_query) |->
                IF i < stop
                THEN (merged_key_name :> MergedValue(updated_query[i], key_list_to_merge, with_key_names))
                     @@ updated_query[i]
                ELSE updated_query[i]]]

\* the arguments merge_keys is called with
MergeArgs == {
    [keys |-> <<"A", "B">>, name |-> "query", with_key_names |-> TRUE],
    [keys |-> <<"discipline", "field">>, name |-> "query", with_key_names |-> FALSE],
    [keys |-> <<"question">>, name |-> "query", with_key_names |-> TRUE] }

OpRecord(op, status, target, keys, name, flag) ==
    [op |-> op, status |-> status, target |-> target,
     keys |-> keys, name |-> name, flag |-> flag]

\* qsets[k] is a QuerySet the caller holds
CanOperate(k) == k \in DOMAIN qsets

\* QuerySet.merge_keys on qsets[k]
merge_keys(k, key_list_to_merge, merged_key_name, with_key_names) ==
    /\ CanOperate(k)
    /\ LET updated_query == get_queries(qsets[k])
           out == MergeKeys([i \in 1..Len(updated_query.list) |->
                                updated_query.heap[updated_query.list[i]]],
                            key_list_to_merge, merged_key_name, with_key_names)
           h == StoreAll(updated_query.heap, updated_query.list, out.records)
       IN IF out.raised
          THEN /\ heap' = KeepOld(h)
               /\ UNCHANGED <<qsets, qsnap>>
               /\ qlast' = OpRecord("merge_keys", "raised", k, key_list_to_merge,
                                    merged_key_name, with_key_names)
          ELSE /\ Keep(QuerySetOf(updated_query.list, qsets[k].file_path), h)
               /\ qlast' = OpRecord("merge_keys", "ok", k, key_list_to_merge,
                                    merged_key_name, with_key_names)
    /\ UNCHANGED <<buckets, dvars, ovars, jvars, cvars, svars, tvars>>

\* mcq_shuffle with keys_to_shuffle = target_option_keys = ["A", "B"]:
\* what random.shuffle can leave in keys_to_shuffle
OptionKeys == <<"A", "B">>
Shuffles == {<<"A", "B">>, <<"B", "A">>}

\* lines 258-280 for one record: the shuffled options and the new answer
ShuffledQuery(query_obj, answer_key, target_answer_key, keys_to_shuffle) ==
    LET answer == query_obj[answer_key]
        hit == {j \in 1..Len(OptionKeys) : keys_to_shuffle[j] = answer}
        new_answer == IF hit = {} THEN ""
                      ELSE OptionKeys[CHOOSE j \in hit : \A i \in hit : i <= j]
    IN (target_answer_key :> new_answer)
       @@ [t \in Range(OptionKeys) |->
             query_obj[keys_to_shuffle[CHOOSE j \in 1..Len(OptionKeys) : OptionKeys[j] = t]]]

\* QuerySet.mcq_shuffle on qsets[k]; shuffled[i] is the order random.shuffle
\* left for record i. A record without the answer key or an option key
\* raises KeyError in the first loop, before any dict is updated.
mcq_shuffle(k, answer_key, target_answer_key, shuffled) ==
    /\ CanOperate(k)
    /\ shuffled \in [1..Len(qsets[k].queries) -> Shuffles]
    /\ LET existing_queries == get_queries(qsets[k])
           recs == [i \in 1..Len(existing_queries.list) |->
                       existing_queries.heap[existing_queries.list[i]]]
           raises == \E i \in 1..Len(recs) :
                        ~HasKeys(recs[i], <<answer_key>> \o OptionKeys)
           h == StoreAll(existing_queries.heap, existing_queries.list,
                    [i \in 1..Len(recs) |->
                        ShuffledQuery(recs[i], answer_key, target_answer_key, shuffled[i])
                        @@ recs[i]])
       IN IF raises
          THEN /\ UNCHANGED <<heap, qsets, qsnap>>
               /\ qlast' = OpRecord("mcq_shuffle", "raised", k, OptionKeys, target_answer_key, FALSE)
          ELSE /\ Keep(QuerySetOf(existing_queries.list, qsets[k].file_path), h)
               /\ qlast' = OpRecord("mcq_shuffle", "ok", k, OptionKeys, target_answer_key, FALSE)
    /\ UNCHANGED <<buckets, dvars, ovars, jvars, cvars, svars, tvars>>

\* self.queries[start:stop] for 0 <= start <= stop <= len
PySlice(list, start, stop) == SubSeq(list, start + 1, stop)

\* __getitem__ with a slice: a new QuerySet over the same dicts
Subset(x, start, stop) == QuerySetOf(PySlice(x.queries, start, stop), x.file_path)

\* QuerySet.__getitem__(slice(start, stop)) on qsets[k]
GetSlice(k, start, stop) ==
    /\ CanOperate(k)
    /\ start \in 0..Len(qsets[k].queries)
    /\ stop \in start..Len(qsets[k].queries)
    /\ Keep(Subset(qsets[k], start, stop), heap)
    /\ qlast' = OpRecord("slice", "ok", k, <<>>, "", FALSE)
    /\ UNCHANGED <<buckets, dvars, ovars, jvars, cvars, svars, tvars>>

Min(a, b) == IF a < b THEN a ELSE b

\* divide: [self[i:i + division_size] for i in range(0, len(self), division_size)]
Divisions(x, division_size) ==
    [d \in 1..((Len(x.queries) + division_size - 1) \div division_size) |->
        Subset(x, (d - 1) * division_size,
                  Min(d * division_size, Len(x.queries)))]

\* QuerySet.divide on qsets[k]; the caller keeps the d-th division, if any
divide(k, division_size, d) ==
    /\ CanOperate(k)
    /\ division_size > 0
    /\ IF Len(Divisions(qsets[k], division_size)) = 0
       THEN d = 1 /\ UNCHANGED <<heap, qsets, qsnap>>
       ELSE /\ d \in 1..Len(Divisions(qsets[k], division_size))
            /\ Keep(Divisions(qsets[k], division_size)[d], heap)
    /\ qlast' = OpRecord("divide", "ok", k, <<>>, "", FALSE)
    /\ UNCHANGED <<buckets, dvars, ovars, jvars, cvars, svars, tvars>>

\* the buckets divide_by_keys appends one query to, in order, and whether
\* it returns at that query (lines 145-154)
RECURSIVE Route(_, _, _, _, _, _)
Route(query, division_keys, completeness, i, identifiers, acc) ==
    IF i > Len(division_keys) THEN [halt |-> FALSE, buckets |-> acc]
    ELSE LET division_key == division_keys[i]
             division_value == IF division_key \in DOMAIN query
                               THEN query[division_key] ELSE "unsorted"
             ids == Append(identifiers, division_value)
             key_not_found == division_value = "unsorted"
         IN IF key_not_found /\ completeness = FALSE
            THEN [halt |-> TRUE, buckets |-> acc]
            ELSE Route(query, division_keys, completeness, i + 1, ids,
                       IF key_not_found \/ i = Len(division_keys)
                       THEN Append(acc, JoinWith("/", ids)) ELSE acc)

\* bucket._append(query) for every bucket of names
AppendTo(dict, names, addr) ==
    [b \in DOMAIN dict \cup Range(names) |->
        LET old == IF b \in DOMAIN dict THEN dict[b] ELSE <<>>
            times == Cardinality({j \in 1..Len(names) : names[j] = b})
        IN old \o [j \in 1..times |-> addr]]

\* divide_by_keys over the queries from position q on; halt stands for the
\* bare return of line 152
RECURSIVE DivideByKeys(_, _, _, _, _)
DivideByKeys(x, division_keys, completeness, q, dict) ==
    IF q > Len(x.queries) THEN [halt |-> FALSE, dict |-> dict]
    ELSE LET r == Route(heap[x.queries[q]], division_keys, completeness, 1, <<>>, <<>>)
         IN IF r.halt THEN [halt |-> TRUE, dict |-> NoBuckets]
            ELSE DivideByKeys(x, division_keys, completeness, q + 1,
                              AppendTo(dict, r.buckets, x.queries[q]))

DivisionKeys == <<"discipline", "field">>
\* the key lists tried: the field every record has first, or last
DivisionKeyLists == {DivisionKeys, <<"field", "discipline">>}

\* QuerySet.divide_by_keys(division_keys, completeness) on qsets[k]
divide_by_keys(k, division_keys, completeness) ==
    /\ CanOperate(k)
    /\ LET r == DivideByKeys(qsets[k], division_keys, completeness, 1, NoBuckets)
       IN /\ buckets' = r.dict
          /\ qlast' = OpRecord("divide_by_keys", IF r.halt THEN "none" ELSE "ok",
                               k, division_keys, "", completeness)
    /\ UNCHANGED <<heap, qsets, qsnap, dvars, ovars, jvars, cvars, svars, tvars>>

\* grouping a QuerySet built from literals
NextGrouping ==
    \/ \E division_keys \in DivisionKeyLists, completeness \in BOOLEAN :
          divide_by_keys(1, division_keys, completeness)
    \/ \E start \in 0..MaxQueries, stop \in 0..MaxQueries : GetSlice(1, start, stop)
    \/ \E division_keys \in DivisionKeyLists, completeness \in BOOLEAN :
          divide_by_keys(2, division_keys, completeness)

NextQuerySet ==
    \/ \E k \in DOMAIN qsets, args \in MergeArgs :
          merge_keys(k, args.keys, args.name, args.with_key_names)
    \/ \E k \in DOMAIN qsets :
          \E shuffled \in [1..Len(qsets[k].queries) -> Shuffles] :
             mcq_shuffle(k, "answer", "answer", shuffled)
    \/ \E k \in DOMAIN qsets :
          \E start \in 0..Len(qsets[k].queries) : \E stop \in start..Len(qsets[k].queries) :
             GetSlice(k, start, stop)
    \/ \E k \in DOMAIN qsets, size \in 1..MaxQueries, d \in 1..MaxQueries : divide(k, size, d)

\* a QuerySet built from a list of dicts or read from a file
InitQuerySet ==
    /\ InitDispatchWith({0}, {[b \in Batches |-> 0]}, {{}}, FALSE)
    /\ NoJudge
    /\ NoStore
    /\ NoSimilarity
    /\ heap \in QueryLists
    /\ qsets \in {<<QuerySetOf([i \in 1..Len(heap) |-> i], path)>> : path \in FilePaths}
    /\ qsnap = <<Snapshot(qsets[1], heap)>>
    /\ qlast = NoOp
    /\ buckets = NoBuckets

SpecQuerySet == InitQuerySet /\ [][NextQuerySet]_vars
SpecGrouping == InitQuerySet /\ [][NextGrouping]_vars

\* =================================================================
\* ResponseSet.store_to, store_to_csv, store_to_excel
\* =================================================================
\* A file is its header and its rows; a row has one cell per column, ""
\* when the cell is empty. Records to store are dicts from field names to
\* strings; entry.keys() lists them in one fixed order.
Keys(entry) ==
    LET Has(k) == k \in DOMAIN entry
    IN SelectSeq(<<"query", "old", "response", "score">>, Has)

\* a row as it is written under header columns
RowUnder(columns, entry) ==
    [c \in Range(columns) |-> IF c \in DOMAIN entry THEN entry[c] ELSE ""]

RECURSIVE AddKeys(_, _, _)
\* store_to_csv, lines 27-30: for entry in data_list: for key in
\* entry.keys(): append key to fieldnames unless it is there. keys are the
\* keys left of the current entry, entries the entries after it.
AddKeys(fieldnames, keys, entries) ==
    IF Len(keys) > 0
    THEN AddKeys(IF Head(keys) \in Range(fieldnames) THEN fieldnames
                 ELSE Append(fieldnames, Head(keys)), Tail(keys), entries)
    ELSE IF Len(entries) > 0
    THEN AddKeys(fieldnames, Keys(Head(entries)), Tail(entries))
    ELSE fieldnames

\* store_to_csv: the file after the call
store_to_csv(f, entries) ==
    IF Len(entries) = 0 THEN f
    ELSE LET existing_data == IF f.exists THEN f.rows ELSE <<>>
             fieldnames == AddKeys(IF f.exists THEN f.columns ELSE <<>>, <<>>, entries)
             merged_data == existing_data \o entries
         IN [exists |-> TRUE, columns |-> fieldnames,
             rows |-> [i \in 1..Len(merged_data) |-> RowUnder(fieldnames, merged_data[i])]]

\* store_to_excel: the file after the call; the header grows by the fields
\* of data_list[0] only
store_to_excel(f, entries) ==
    IF Len(entries) = 0 THEN f
    ELSE LET data_fields == Keys(entries[1])
             IsNew(field) == field \notin Range(f.columns)
             column_headers == IF f.exists THEN f.columns \o SelectSeq(data_fields, IsNew)
                               ELSE data_fields
             old_rows == IF f.exists THEN f.rows ELSE <<>>
         IN [exists |-> TRUE, columns |-> column_headers,
             rows |-> [i \in 1..Len(old_rows) |-> RowUnder(column_headers, old_rows[i])]
                      \o [j \in 1..Len(entries) |-> RowUnder(column_headers, entries[j])]]

\* store_to, lines 499-500
max_retries == 2
interval == 5

\* store_to up to its loop
StoreTo ==
    /\ spc = "idle"
    /\ spc' = "writing"
    /\ sloop' = 1
    /\ retry' = 0
    /\ fileAtCall' = file
    /\ UNCHANGED <<file, data_list, writer, writes, ioErrors, slept, sinceWrite,
                   dvars, ovars, jvars, cvars, qvars, tvars>>

\* the writer returns: break
WriteDone ==
    /\ spc = "writing"
    /\ file' = IF writer = "csv" THEN store_to_csv(file, data_list)
                ELSE store_to_excel(file, data_list)
    /\ writes' = writes + 1
    /\ sinceWrite' = 0
    /\ spc' = "done"
    /\ UNCHANGED <<fileAtCall, data_list, writer, sloop, retry, ioErrors, slept,
                   dvars, ovars, jvars, cvars, qvars, tvars>>

\* line 508 with a test that always passes
CanRetryAlways(r) == TRUE

\* line 508
CanRetry(r) == r < max_retries

\* the writer raises IOError before it changed the file
WriteIOError ==
    /\ spc = "writing"
    /\ writes' = writes + 1
    /\ ioErrors' = ioErrors + 1
    /\ sinceWrite' = 0
    /\ IF CanRetry(retry)
       THEN retry' = retry + 1 /\ spc' = "pausing"
       ELSE UNCHANGED retry /\ spc' = "raised"
    /\ UNCHANGED <<file, fileAtCall, data_list, writer, sloop, slept,
                   dvars, ovars, jvars, cvars, qvars, tvars>>

\* time.sleep(interval) is over: the next iteration of range(max_retries + 1),
\* or the end of the loop
PauseDone ==
    /\ spc = "pausing"
    /\ slept' = slept + interval
    /\ sinceWrite' = sinceWrite + interval
    /\ IF sloop < max_retries + 1
       THEN sloop' = sloop + 1 /\ spc' = "writing"
       ELSE UNCHANGED sloop /\ spc' = "done"
    /\ UNCHANGED <<file, fileAtCall, data_list, writer, retry, writes, ioErrors,
                   dvars, ovars, jvars, cvars, qvars, tvars>>

NextStore ==
    \/ StoreTo
    \/ WriteDone
    \/ WriteIOError
    \/ PauseDone

\* store_to of a ResponseSet to a .csv or .xlsx path that may exist
InitStore ==
    /\ InitDispatchWith({0}, {[b \in Batches |-> 0]}, {{}}, FALSE)
    /\ NoJudge
    /\ NoQuerySet
    /\ NoSimilarity
    /\ file \in {NoFile} \cup
            {[exists |-> TRUE, columns |-> <<"query", "old">>,
              rows |-> [i \in 1..n |-> [query |-> "q0", old |-> "o"]]] : n \in 0..MaxFileRows}
    /\ fileAtCall = NoFile
    /\ data_list \in UNION {[1..n -> {[query |-> "q1", response |-> "r"],
                                      [query |-> "q2", response |-> "r", score |-> "1"]}] :
                              n \in 0..MaxStore}
    /\ writer \in {"csv", "xlsx"}
    /\ spc = "idle"
    /\ sloop = 0
    /\ retry = 0
    /\ writes = 0
    /\ ioErrors = 0
    /\ slept = 0
    /\ sinceWrite = 0

SpecStore == InitStore /\ [][NextStore]_vars

\* =================================================================
\* TEXT_SIMILARITY
\* =================================================================
RECURSIVE operation_matrix(_, _, _, _)
\* operation_matrix[r][c] once the loops of _TEXT_SIMILARITY are over
operation_matrix(response, answer, r, c) ==
    IF c = 0 THEN r
    ELSE IF r = 0 THEN c
    ELSE IF response[r] = answer[c] THEN operation_matrix(response, answer, r - 1, c - 1)
    ELSE Min(operation_matrix(response, answer, r - 1, c),
             Min(operation_matrix(response, answer, r, c - 1),
                 operation_matrix(response, answer, r - 1, c - 1))) + 1

\* _TEXT_SIMILARITY: 1 - distance / max(ROWS, COLUMNS) as the fraction
\* num/den; the division raises ZeroDivisionError when both are empty
TEXT_SIMILARITY(response, answer) ==
    LET ROWS == Len(response)
        COLUMNS == Len(answer)
        max == IF ROWS > COLUMNS THEN ROWS ELSE COLUMNS
    IN IF max = 0
       THEN [status |-> "raised", num |-> 0, den |-> 0]
       ELSE [status |-> "value",
             num |-> max - operation_matrix(response, answer, ROWS, COLUMNS),
             den |-> max]

\* await TEXT_SIMILARITY(response, answer)
TextSimilarity ==
    /\ simResult = NotComputed
    /\ simResult' = TEXT_SIMILARITY(simResponse, simAnswer)
    /\ UNCHANGED <<simResponse, simAnswer, mvars, bvars, dvars, ovars, jvars, cvars, qvars, svars>>

InitSimilarity ==
    /\ InitDispatchWith({0}, {[b \in Batches |-> 0]}, {{}}, FALSE)
    /\ NoJudge
    /\ NoQuerySet
    /\ NoStore
    /\ simResponse \in UNION {[1..n -> {"a", "b"}] : n \in 0..MaxStr}
                        \cup {<<"k", "i", "t", "t", "e", "n">>}
    /\ simAnswer \in UNION {[1..n -> {"a", "b"}] : n \in 0..MaxStr}
                      \cup {<<"s", "i", "t", "t", "i", "n", "g">>}
    /\ simResult = NotComputed
    /\ NoScoring
    /\ NoBody

SpecSimilarity == InitSimilarity /\ [][TextSimilarity]_vars

\* =================================================================
\* MODEL_SCORING, model_scoring, model_binary_scoring_preprocessor
\* =================================================================
\* A text is a sequence of characters.  "</think>" stands for the closing
\* tag as a whole, and a message constant is a text of one element; both
\* begin and end with a character that is neither a digit nor a letter
\* next to a digit ("<", ">", ".").
THINK_FAILED_MSG == "Thinking process failed."
ANSWER_FAILED_MSG == "No valid answer field was found. Fall back to false."
ReplyChars == {"0", "1", "7", "x", " ", "</think>"}
IsDigit(c) == c \in {"0", "1", "7"}
\* str.isalpha of one character
IsAlpha(c) == c = "x"

\* what single_request returns, as a str or a dict with its text
StrResult(text) == [kind |-> "str", text |-> text]
DictResult(text) == [kind |-> "dict", text |-> text]

\* single_request: _process_request without semaphore, i.e. _do_request
single_request(given) ==
    IF do_request(given).kind = "dict" THEN DictResult(<<FALLBACK_ERR_MSG>>)
    ELSE IF given.shape = "chat" THEN StrResult(given.content)
    ELSE IF given.shape = "nullcontent" THEN StrResult(<<NONE_CONTENT_ERROR_MSG>>)
    ELSE StrResult(<<>>)

\* the first run of digits of s, unless a letter touches it
pick_first_numbers_if_independent(s) ==
    LET digits == {i \in 1..Len(s) : IsDigit(s[i])}
    IN IF digits = {} THEN <<>>
       ELSE LET i == CHOOSE x \in digits : \A y \in digits : x <= y
                j == CHOOSE x \in i..Len(s) :
                        /\ \A k \in i..x : IsDigit(s[k])
                        /\ x = Len(s) \/ ~IsDigit(s[x + 1])
                group1 == IF i > 1 THEN <<s[i - 1]>> ELSE <<>>
                group4 == IF j < Len(s) THEN <<s[j + 1]>> ELSE <<>>
            IN IF group1 # <<"x">> /\ group4 # <<"x">> THEN SubSeq(s, i, j) ELSE <<>>

\* the last run of digits of s, unless a letter touches it
pick_last_numbers_if_independent(s) ==
    LET digits == {i \in 1..Len(s) : IsDigit(s[i])}
    IN IF digits = {} THEN <<>>
       ELSE LET j == CHOOSE x \in digits : \A y \in digits : x >= y
                i == CHOOSE x \in 1..j :
                        /\ \A k \in x..j : IsDigit(s[k])
                        /\ x = 1 \/ ~IsDigit(s[x - 1])
                group1 == IF i > 1 THEN <<s[i - 1]>> ELSE <<>>
                group4 == IF j < Len(s) THEN <<s[j + 1]>> ELSE <<>>
            IN IF group1 # <<"x">> /\ group4 # <<"x">> THEN SubSeq(s, i, j) ELSE <<>>

\* filter_non_binary_scores: s if s in "01" else "", a substring test
filter_non_binary_scores(s) ==
    IF s \in {<<>>, <<"0">>, <<"1">>, <<"0", "1">>} THEN s ELSE <<>>

\* _catch_non_binary_score_pipeline of model_binary_scoring_preprocessor
catch_non_binary_score_pipeline(s) ==
    IF filter_non_binary_scores(s) = <<>>
    THEN LET last_numeric_substring == pick_last_numbers_if_independent(s)
         IN IF filter_non_binary_scores(last_numeric_substring) # <<>>
            THEN last_numeric_substring ELSE <<>>
    ELSE s

\* preprocess_pipeline returns its state as it is
PipelineHalts(state) ==
    state \in {<<THINK_FAILED_MSG>>, <<ANSWER_FAILED_MSG>>, <<NONE_CONTENT_ERROR_MSG>>}

\* model_binary_scoring_preprocessor(response): preprocess_pipeline over
\* pick_first_numbers_if_independent and _catch_non_binary_score_pipeline;
\* re.search on a dict raises TypeError
model_binary_scoring_preprocessor(response) ==
    IF response.kind # "str" THEN [status |-> "raised", text |-> <<>>]
    ELSE IF PipelineHalts(response.text) THEN [status |-> "ok", text |-> response.text]
    ELSE IF response.text = <<>> THEN [status |-> "ok", text |-> <<>>]
    ELSE LET state == pick_first_numbers_if_independent(response.text)
         IN IF state = <<>> THEN [status |-> "ok", text |-> <<>>]
            ELSE [status |-> "ok", text |-> catch_non_binary_score_pipeline(state)]

JudgeFailedResult == [status |-> "failed", num |-> 0, den |-> 1]
RaisedResult == [status |-> "raised", num |-> 0, den |-> 0]
ScoreResult(n) == [status |-> "value", num |-> n, den |-> 1]

\* model_scoring after the request, lines 56-59, and MODEL_SCORING, lines
\* 140-144: "" becomes JUDGE_FAILED_MSG, anything else goes through int and
\* float; int of a text that is no number raises ValueError
MODEL_SCORING(scoring_result) ==
    LET parsed == model_binary_scoring_preprocessor(scoring_result)
    IN IF parsed.status = "raised" THEN RaisedResult
       ELSE IF parsed.text = <<>> THEN JudgeFailedResult
       ELSE IF parsed.text = <<"0">> THEN ScoreResult(0)
       ELSE IF parsed.text \in {<<"1">>, <<"0", "1">>} THEN ScoreResult(1)
       ELSE RaisedResult

\* make_scoring_query: the three slots of the prompt
make_scoring_query(response, answer, context) ==
    [Response |-> response, Question |-> context, Answer |-> answer]

\* the positional arguments of "await judger(...)" in _judge_single_resp_obj
JudgerArgs(preprocessed_response, preprocessed_answer) ==
    <<preprocessed_answer, preprocessed_response>>

\* _judge_single_resp_obj awaits MODEL_SCORING(response, answer, context):
\* model_scoring validates the settings and builds the scoring query
ModelScoringCall ==
    /\ msPrompt = NoPrompt
    /\ msResult = NotComputed
    /\ LET args == JudgerArgs(msArgs.response, msArgs.answer)
           response == args[1]
           answer == args[2]
       IN IF msConfigured
          THEN /\ msPrompt' = make_scoring_query(response, answer, msArgs.context)
               /\ UNCHANGED msResult
          ELSE /\ msResult' = RaisedResult
               /\ UNCHANGED msPrompt
    /\ UNCHANGED <<msConfigured, msArgs, msOutcome, simResponse, simAnswer, simResult, bvars,
                   dvars, ovars, jvars, cvars, qvars, svars>>

\* single_request returns and the score is parsed
ModelScoringReply(given) ==
    /\ msPrompt # NoPrompt
    /\ msResult = NotComputed
    /\ msOutcome' = given
    /\ msResult' = MODEL_SCORING(single_request(given))
    /\ UNCHANGED <<msConfigured, msArgs, msPrompt, simResponse, simAnswer, simResult, bvars,
                   dvars, ovars, jvars, cvars, qvars, svars>>

NextModelScoring ==
    \/ ModelScoringCall
    \/ \E reply \in UNION {[1..n -> ReplyChars] : n \in 0..MaxReply} :
          ModelScoringReply(ChatBody(reply))
    \/ \E given \in {NullContentBody, NoChoicesBody, NoResponse, RaisedResponse} :
          ModelScoringReply(given)

\* one record is about to be scored by the judge model
InitModelScoring ==
    /\ InitDispatchWith({0}, {[b \in Batches |-> 0]}, {{}}, FALSE)
    /\ NoJudge
    /\ NoQuerySet
    /\ NoStore
    /\ simResponse = <<>>
    /\ simAnswer = <<>>
    /\ simResult = NotComputed
    /\ NoBody
    /\ msConfigured \in BOOLEAN
    /\ msArgs \in [response : {"A", "B"}, answer : {"A", "B"}, context : {"q"}]
    /\ msPrompt = NoPrompt
    /\ msOutcome = PendingResponse
    /\ msResult = NotComputed

SpecModelScoring == InitModelScoring /\ [][NextModelScoring]_vars

\* =================================================================
\* make_request_body: the wire payload built from the parameter bag
\* =================================================================
\* a value of the bag or of the payload, with its Python type
Val(type, val) == [type |-> type, val |-> val]

float_params == {"temperature", "top_p", "frequency_penalty", "presence_penalty"}
int_params == {"max_tokens", "top_k"}

\* float(x) and int(x) of a number or of its decimal text
float(x) == Val("float", x.val)
int(x) == Val("int", x.val)

\* a dict without some keys, and dict.update
Without(f, K) == [k \in DOMAIN f \ K |-> f[k]]
Update(f, g) == [k \in DOMAIN f \cup DOMAIN g |-> IF k \in DOMAIN g THEN g[k] ELSE f[k]]

\* dict.pop(key, "") of a text
PopText(f, key) == IF key \in DOMAIN f THEN f[key].val ELSE ""

KeyErrorResult(left) == [status |-> "KeyError", messages |-> <<>>, params |-> <<>>, left |-> left]

\* make_request_body(request_str, **request_params): the messages, the
\* other keys of the request, and what is left of the local request_params
make_request_body(request_str, request_params) ==
    IF "model" \notin DOMAIN request_params THEN KeyErrorResult(request_params)
    ELSE LET key_updated ==
                 [k \in (float_params \cup int_params) \cap DOMAIN request_params |->
                     IF k \in float_params THEN float(request_params[k])
                     ELSE int(request_params[k])]
             updated == Update("model" :> request_params["model"], key_updated)
             params ==
                 IF /\ {"top_p", "top_k"} \cap DOMAIN updated # {}
                    /\ "temperature" \in DOMAIN updated
                    /\ updated["temperature"].val = "0"
                 THEN Without(updated, {"top_p", "top_k"})
                 ELSE updated
             prefix == PopText(request_params, "prompt_prefix")
             suffix == PopText(request_params, "prompt_suffix")
             system_prompt == PopText(request_params, "system_prompt")
             messages ==
                 (IF system_prompt # ""
                  THEN <<[role |-> "system", content |-> <<system_prompt>>]>>
                  ELSE <<>>)
                 \o <<[role |-> "user", content |-> <<prefix, request_str, suffix>>]>>
             popped == Without(request_params,
                               {"model"} \cup float_params \cup int_params
                               \cup {"prompt_prefix", "prompt_suffix", "system_prompt"})
         IN IF "base_url" \notin DOMAIN popped THEN KeyErrorResult(popped)
            ELSE IF "api_url" \notin DOMAIN popped
                 THEN KeyErrorResult(Without(popped, {"base_url"}))
            ELSE IF "api_key" \notin DOMAIN popped
                 THEN KeyErrorResult(Without(popped, {"base_url", "api_url"}))
            ELSE LET remaining == Without(popped, {"base_url", "api_url", "api_key"})
                 IN [status |-> "ok",
                     messages |-> messages,
                     params |-> Update(Update(params, remaining),
                                       "stream" :> Val("bool", "False")),
                     left |-> remaining]

\* the caller's dict after a call that pops from the dict it was handed
CallerParamsShared(request_params, left) == left

\* the caller's dict after make_request_body(request_text, **request_params):
\* the ** of the call builds a new dict for the callee
CallerParams(request_params, left) == request_params

\* do_request_on reads api_url and api_key and builds the body of one request
BuildBody(request_str) ==
    /\ Len(built) < MaxReq
    /\ LET request_body ==
               IF {"api_url", "api_key"} \subseteq DOMAIN bag
               THEN make_request_body(request_str, bag)
               ELSE KeyErrorResult(bag)
       IN /\ built' = Append(built, request_body)
          /\ bag' = CallerParams(bag, request_body.left)
    /\ UNCHANGED <<bagAtCall, simResponse, simAnswer, simResult, mvars,
                   dvars, ovars, jvars, cvars, qvars, svars>>

NextBody == \E request_str \in {"q", ""} : BuildBody(request_str)

\* the bags RequestParams.get_params hands to process_batch: api_url is
\* always there, a key whose value is None is left out
InitBody ==
    /\ InitDispatchWith({0}, {[b \in Batches |-> 0]}, {{}}, FALSE)
    /\ NoJudge
    /\ NoQuerySet
    /\ NoStore
    /\ simResponse = <<>>
    /\ simAnswer = <<>>
    /\ simResult = NotComputed
    /\ NoScoring
    /\ \E keys \in SUBSET {"base_url", "api_key", "model", "top_p", "top_k", "system_prompt",
                           "prompt_prefix", "repetition_penalty", "stream"} :
       \E temperature \in {"", "0", "1"} :
          bag = [k \in keys \cup {"api_url"} \cup (IF temperature = "" THEN {} ELSE {"temperature"}) |->
                    CASE k = "temperature" -> Val("int", temperature)
                      [] k = "top_p" -> Val("float", "1")
                      [] k = "top_k" -> Val("int", "1")
                      [] k = "repetition_penalty" -> Val("int", "1")
                      [] k = "stream" -> Val("bool", "True")
                      [] OTHER -> Val("str", k)]
    /\ bagAtCall = bag
    /\ built = <<>>

SpecBody == InitBody /\ [][NextBody]_vars

\* =================================================================
\* Properties of the dispatcher
\* =================================================================
IsTaskOf(t, b) == t[1] = b /\ t[2] <= blen[b]

\* C1: whatever the order in which the tasks of a process_batch call
\* finish, the list it returns has one element per request (also for an
\* empty list) and its i-th element is what the task of request i returned.
C1_OrderPreserved ==
    \A b \in Batches : bpc[b] = "returned" =>
        /\ Len(responses[b]) = blen[b]
        /\ \A i \in 1..blen[b] :
              /\ responses[b][i].of = i
              /\ responses[b][i] = fut[<<b, i>>]

\* a call over at least two requests has returned although a later task
\* finished before an earlier one
C1_Witness ==
    /\ bpc[1] = "returned"
    /\ blen[1] >= 2
    /\ outOfOrder[1]

\* the tasks that are inside do_request_on
InFlight == {t \in Tasks : tpc[t] \in {"post", "sleepInner", "sleepOuter"}}

\* C2: with a positive cap, never more than cap tasks are inside the
\* transport action, counted over all process_batch calls of the process.
C2_ConcurrencyBound == HasSemaphore => Cardinality(InFlight) <= cap

\* the cap is reached by tasks of two different calls while another task
\* is waiting for a permit
C2_Witness ==
    /\ HasSemaphore
    /\ Cardinality(InFlight) = cap
    /\ \E t, u \in InFlight : t[1] # u[1]
    /\ \E t \in Tasks : tpc[t] = "created"

\* C3: when every request of a call either failed for good or received a
\* well-formed 200 chat completion, the returned list holds the fallback
\* payload exactly at the failed positions and the content of the first
\* choice at the others.
C3_FailuresIsolated ==
    (/\ bpc[1] = "returned"
     /\ \A i \in 1..blen[1] : outcome[<<1, i>>].shape \in {"none", "raised", "chat"})
    => \A i \in 1..blen[1] :
          LET o == outcome[<<1, i>>]
          IN IF o.shape = "chat"
             THEN responses[1][i].val = PyStr(o.content)
             ELSE responses[1][i].val = FALLBACK

ObsDone == obs # NoTask /\ tpc[obs] = "done"

\* every attempt made so far for the observed request ended with a non-2xx status
ObsAllNon2xx == obs # NoTask /\ obsHist = "non2xx" /\ obsFails = obsPosts

\* C4: a request whose every attempt gets a non-2xx status is POSTed
\* exactly MAX_ATTEMPTS times; do_request_on then returns None and the
\* task's result is the fallback payload.
C4_ExactlyMaxAttempts ==
    /\ obs # NoTask => obsPosts <= MAX_ATTEMPTS
    /\ (ObsDone /\ ObsAllNon2xx) =>
          /\ obsPosts = MAX_ATTEMPTS
          /\ outcome[obs] = NoResponse
          /\ fut[obs].val = FALLBACK

C4_Witness == ObsDone /\ ObsAllNon2xx /\ obsFails = MAX_ATTEMPTS

\* C5: a request whose attempts failed with a non-2xx status, a timeout,
\* a client error or an empty 200 body is given up (do_request_on returns
\* None) only after MAX_ATTEMPTS failed attempts.
C5_RetriedUntilExhausted ==
    (/\ ObsDone
     /\ outcome[obs] = NoResponse
     /\ obsHist \in {"non2xx", "timeout", "clientError", "empty200"})
    => obsFails = MAX_ATTEMPTS

\* C6: when a request is POSTed again after a failed attempt, exactly one
\* sleep has taken place since that failure.
C6_OneBackoffSleep ==
    (obs # NoTask /\ tpc[obs] = "post" /\ attempt[obs] > 0) => obsBackoff = 1

\* C25: a 200 response whose body is malformed (no choices, null content,
\* an empty object) never makes the dispatcher fail; the task's result is
\* the empty-content or the no-content marker, never the transport-failure
\* fallback.
C25_MalformedBodyGivesMarker ==
    \A t \in Tasks :
        (tpc[t] = "done" /\ outcome[t].shape \in {"nochoices", "nullcontent", "emptyobj"})
        => /\ fut[t].val \in {PyStr(""), PyStr(NONE_CONTENT_ERROR_MSG)}
           /\ fut[t].val # FALLBACK

\* C26: free permits + tasks inside "async with semaphore" = cap at every
\* instant, whether the tasks end by success, failure or exception, and
\* once no process_batch call is running every permit is free.
C26_PermitsConserved ==
    HasSemaphore =>
        /\ semValue >= 0
        /\ semValue + Cardinality(InFlight) = cap
        /\ (\A b \in Batches : bpc[b] # "gathering") => semValue = cap

\* both calls have returned, one task ended by an exception, another with
\* a response, a third after being given up, and every permit is free
C26_Witness ==
    /\ HasSemaphore
    /\ \A b \in Batches : bpc[b] = "returned"
    /\ \E t, u, v \in Tasks :
          /\ outcome[t] = RaisedResponse
          /\ outcome[u].shape = "chat"
          /\ outcome[v] = NoResponse
    /\ semValue = cap

\* C27: when every one of the MAX_ATTEMPTS attempts of a request got a
\* non-2xx status, MAX_ATTEMPTS - 1 warnings were logged for it: one per
\* retry, none for the last failed attempt.
C27_WarningPerRetry ==
    (ObsDone /\ ObsAllNon2xx /\ obsFails = MAX_ATTEMPTS) => obsWarnings = MAX_ATTEMPTS - 1

\* the POSTs task t has issued
Posts(t) == IF tpc[t] \in {"none", "created"} THEN 0 ELSE attempt[t] + 1
RECURSIVE PostsOfFirst(_, _)
\* the POSTs issued for the first n requests of call b
PostsOfFirst(b, n) == IF n = 0 THEN 0 ELSE Posts(<<b, n>>) + PostsOfFirst(b, n - 1)

\* C30: at no time has a process_batch call issued more than
\* N * MAX_ATTEMPTS POSTs for its N requests, and from some time on no
\* call is still gathering and no task is still waiting for a permit:
\* every call that has started returns, with or without a cap and whatever
\* fails.
C30_EveryBatchReturns ==
    /\ [](\A b \in Batches : PostsOfFirst(b, blen[b]) <= blen[b] * MAX_ATTEMPTS)
    /\ <>[](/\ \A b \in Batches : bpc[b] # "gathering"
            /\ \A t \in Tasks : tpc[t] # "created")

\* a call over at least two requests has returned under a cap of one
\* after every request used up all its attempts
C30_Witness ==
    /\ cap = 1
    /\ blen[1] >= 2
    /\ bpc[1] = "returned"
    /\ PostsOfFirst(1, blen[1]) = blen[1] * MAX_ATTEMPTS

\* =================================================================
\* Properties of invoke and judge
\* =================================================================
\* the records pass p skipped
SkippedRecords(p) == {x[1] : x \in skipped[p]}
\* the records pass p wrote a score to
ScoredRecords(p) == {x[1] : x \in written[p]}
\* pass p has gone through every record
LoopOver(p) == jpc[p] \in {"loop", "returned", "raised"} /\ ji[p] > Len(rs)
\* pass p has dealt with record i
Handled(p, i) == jpc[p] \in {"loop", "comparing", "returned", "raised"} /\ ji[p] > i

\* C7: a request whose transport failed for good, dispatched by invoke and
\* then judged, is skipped: its record gets no score and it is left out of
\* score and full_score.
C7_FailedRequestSkipped ==
    \A i \in 1..blen[1] :
        (/\ rsReady
         /\ outcome[<<1, i>>].shape \in {"none", "raised"}
         /\ Handled(1, i))
        => /\ i \in SkippedRecords(1)
           /\ i \notin ScoredRecords(1)
           /\ ScoreField(EvalName(1)) \notin DOMAIN rs[i]

\* the records whose response is the transport-failure sentinel
FallbackRecords(p) == {i \in 1..Len(rs) : rs[i][ResponseKey(p)] = PyStr(FALLBACK_ERR_MSG)}

\* C8: when the skipped records of a pass are exactly the K records whose
\* response is the sentinel, judge returns full_score = N - K and no
\* sentinel record is given a score.
C8_SkipAccounting ==
    \A p \in Passes :
        (LoopOver(p) /\ jpc[p] # "loop" /\ SkippedRecords(p) = FallbackRecords(p))
        => /\ jpc[p] = "returned"
           /\ summary[p].full_score = Len(rs) - Cardinality(FallbackRecords(p))
           /\ FallbackRecords(p) \cap ScoredRecords(p) = {}

RECURSIVE SumOfWritten(_)
SumOfWritten(w) ==
    IF w = {} THEN 0
    ELSE LET x == CHOOSE y \in w : TRUE IN x[2].n + SumOfWritten(w \ {x})

RECURSIVE SumOfField(_, _, _)
SumOfField(recs, idx, field) ==
    IF idx = {} THEN 0
    ELSE LET i == CHOOSE j \in idx : TRUE
         IN recs[i][field].n + SumOfField(recs, idx \ {i}, field)

\* C9: while a pass runs, full_score is N minus the number of records
\* skipped so far (one per skip, whatever the reason) and score is the sum
\* of the scores written so far, the record whose comparator is pending not
\* included; the summary judge returns has full_score = N - skips, score =
\* the sum of the score fields of the records that were not skipped,
\* 0 <= score <= full_score, and accuracy = score / full_score.
C9_ScoreAccounting ==
    \A p \in Passes :
        /\ jpc[p] \in {"loop", "comparing", "returned"} =>
              /\ full_score[p] = Len(rs) - Cardinality(skipped[p])
              /\ Cardinality(SkippedRecords(p)) = Cardinality(skipped[p])
              /\ score[p] = SumOfWritten(written[p])
              /\ SkippedRecords(p) \cup ScoredRecords(p) = 1..(ji[p] - 1)
              /\ SkippedRecords(p) \cap ScoredRecords(p) = {}
        /\ (jpc[p] = "returned" /\ lastPass = p) =>
              LET judged == (1..Len(rs)) \ SkippedRecords(p)
              IN  /\ summary[p].full_score = Len(rs) - Cardinality(SkippedRecords(p))
                  /\ \A i \in judged : ScoreField(EvalName(p)) \in DOMAIN rs[i]
                  /\ summary[p].score = SumOfField(rs, judged, ScoreField(EvalName(p)))
                  /\ 0 <= summary[p].score
                  /\ summary[p].score <= summary[p].full_score
                  /\ summary[p].full_score > 0
                  /\ summary[p].accuracy = <<summary[p].score, summary[p].full_score>>

\* a second pass has returned after skipping one record
\* for a sentinel response and scoring another as correct
C9_Witness ==
    \E p \in Passes :
        /\ jpc[p] = "returned"
        /\ lastPass = p
        /\ \E q \in Passes : q # p /\ jpc[q] = "returned"
        /\ \E x \in skipped[p] : x[2] = "skip_fallback"
        /\ summary[p].score >= 1

\* C10: after both passes, a record judged in both holds the score of each
\* pass under the field named after that pass.
C10_ScoresNamedAfterPass ==
    (jpc[1] = "returned" /\ jpc[2] = "returned") =>
        \A p \in Passes : \A x \in written[p] :
            x[1] \in ScoredRecords(1) \cap ScoredRecords(2) =>
                /\ EvalName(p) \in DOMAIN rs[x[1]]
                /\ rs[x[1]][EvalName(p)] = x[2]

\* a summary is due: pass p went through every record
AllSkipped(p) == LoopOver(p) /\ Cardinality(SkippedRecords(p)) = Len(rs)

\* C11: when every record of a non-empty collection was skipped, judge
\* does not fail with a division by zero: the call completes.
C11_ZeroDenominatorGuarded ==
    \A p \in Passes :
        (Len(rs) > 0 /\ AllSkipped(p) /\ jpc[p] # "loop") => jpc[p] = "returned"

\* C12: judge never raises while it goes through the records: a record
\* (not the first) that lacks a field, a preprocessor that raises, a
\* comparator that raises or reports judge-failure only costs that record.
C12_RecordFailuresIsolated ==
    \A p \in Passes : ~(jpc[p] = "raised" /\ ji[p] <= Len(rs))

\* the collection is empty or its first record lacks the target response
\* field, the answer field or the given context field
InvalidForJudge(p) ==
    \/ Len(rs) = 0
    \/ ResponseKey(p) \notin DOMAIN rs[1]
    \/ AnswerKey \notin DOMAIN rs[1]
    \/ context_key # None /\ context_key \notin DOMAIN rs[1]

\* C13: a judge call on an empty collection, or on one whose first record
\* lacks the response, answer or given context field, returns None within
\* the call, never raises, and leaves every record as it was.
C13_InvalidCallReturnsNone ==
    /\ [](\A p \in Passes : (jpc[p] # "idle" /\ InvalidForJudge(p)) => jpc[p] = "none")
    /\ [][\A p \in Passes :
            (jpc[p] = "idle" /\ jpc'[p] # "idle" /\ InvalidForJudge(p))
            => (jpc'[p] = "none" /\ rs' = rs)]_vars

\* the second call returned None for a first record without the answer
\* field, on a collection of two records
C13_Witness ==
    /\ Len(rs) = 2
    /\ AnswerKey \notin DOMAIN rs[1]
    /\ jpc[1] = "none"
    /\ jpc[2] = "none"

\* the comparator invocations in flight, over all judge calls
ComparatorsInFlight == {p \in Passes : jpc[p] = "comparing"}

\* C14: with a scoring cap, never more comparator invocations are in
\* flight than the cap, counted over all judge calls of the process.
C14_ScoringBound == HasScoringSemaphore => Cardinality(ComparatorsInFlight) <= scoringCap

\* =================================================================
\* Properties of QuerySet
\* =================================================================
\* the QuerySet the last operation was called on
LastTarget == qsets[qlast.target]
\* the positions of its records that have "discipline" but lack "field"
LackField ==
    {i \in 1..Len(LastTarget.queries) :
        /\ "discipline" \in DOMAIN heap[LastTarget.queries[i]]
        /\ "field" \notin DOMAIN heap[LastTarget.queries[i]]}

\* C15: divide_by_keys(["discipline", "field"]) over records of which some
\* lack "field": with completeness=False each of them is found in the
\* bucket "<discipline>/unsorted" of the returned dict; with
\* completeness=True the grouping is aborted and nothing is returned.
C15_OrphansRoutedOrAborted ==
    (qlast.op = "divide_by_keys" /\ qlast.keys = DivisionKeys /\ LackField # {}) =>
        IF qlast.flag
        THEN qlast.status = "none"
        ELSE /\ qlast.status = "ok"
             /\ \A i \in LackField :
                   LET bucket == heap[LastTarget.queries[i]]["discipline"] \o "/unsorted"
                   IN /\ bucket \in DOMAIN buckets
                      /\ LastTarget.queries[i] \in Range(buckets[bucket])

\* the places of the returned buckets: <<bucket name, position>>
BucketSlots == UNION {{<<b, j>> : j \in 1..Len(buckets[b])} : b \in DOMAIN buckets}

\* C29: when divide_by_keys returns buckets, every record of the set is in
\* exactly one bucket, once, and the bucket sizes add up to the length of
\* the set, also when a record lacks a key that is not the last of the list.
C29_BucketsPartition ==
    (qlast.op = "divide_by_keys" /\ qlast.status = "ok") =>
        /\ \A i \in 1..Len(LastTarget.queries) :
              Cardinality({p \in BucketSlots :
                              buckets[p[1]][p[2]] = LastTarget.queries[i]}) = 1
        /\ Cardinality(BucketSlots) = Len(LastTarget.queries)

\* C16: a merge_keys call with a key that the first record of the set does
\* not have raises, and the step changes no dict and builds no QuerySet.
C16_MergeRaisesBeforeTouching ==
    [][(/\ qlast'.op = "merge_keys"
        /\ Len(qsets[qlast'.target].queries) > 0
        /\ ~HasKeys(heap[qsets[qlast'.target].queries[1]], qlast'.keys))
       => (/\ qlast'.status = "raised"
           /\ heap' = heap
           /\ qsets' = qsets)]_vars

\* merge_keys(["discipline", "field"]) raised on a derived set of two
\* records of which the first has "discipline" but not "field"
C16_Witness ==
    /\ qlast.op = "merge_keys"
    /\ qlast.status = "raised"
    /\ qlast.target = 2
    /\ qlast.keys = <<"discipline", "field">>
    /\ Len(qsets[2].queries) = 2
    /\ 1 \in LackField

\* C17: whatever sequence of merge_keys, mcq_shuffle, divide and slicing
\* was run on the first QuerySet and on the sets derived from it, the
\* first QuerySet has the records, the order and the path tag it was built
\* with, and every successful merge, shuffle or slice gave a QuerySet.
C17_OriginalUnchanged ==
    qsets # <<>> =>
        /\ Snapshot(qsets[1], heap) = qsnap[1]
        /\ (qlast.op \in {"merge_keys", "mcq_shuffle", "slice"} /\ qlast.status = "ok")
              => Len(qsets) = 2

\* a merge on a set derived from a two-record QuerySet succeeded: the
\* derived records carry the merged field
C17_Witness ==
    /\ qlast.op = "merge_keys"
    /\ qlast.status = "ok"
    /\ qlast.target = 2
    /\ Len(qsets[1].queries) = 2
    /\ Len(qsets[2].queries) >= 1
    /\ "query" \in DOMAIN heap[qsets[2].queries[1]]

\* =================================================================
\* Properties of store_to and TEXT_SIMILARITY
\* =================================================================
\* C18: once store_to has written m records to a file that held n rows,
\* the file holds n + m rows, the n old ones first with their old cells,
\* then the m records with every one of their fields, and its columns are
\* the old columns together with every field of every stored record.
C18_AppendKeepsEverything ==
    (spc = "done" /\ fileAtCall.exists) =>
        LET n == Len(fileAtCall.rows)
            m == Len(data_list)
            StoredFields == UNION {DOMAIN data_list[j] : j \in 1..m}
        IN /\ Len(file.rows) = n + m
           /\ Range(file.columns) = Range(fileAtCall.columns) \cup StoredFields
           /\ \A i \in 1..n : \A c \in Range(fileAtCall.columns) :
                 file.rows[i][c] = fileAtCall.rows[i][c]
           /\ \A j \in 1..m : \A c \in DOMAIN data_list[j] :
                 /\ c \in DOMAIN file.rows[n + j]
                 /\ file.rows[n + j][c] = data_list[j][c]

\* C19: store_to invokes the writer at most max_retries + 1 = 3 times,
\* sleeps interval = 5 seconds once before every invocation but the first,
\* ends at the first invocation that succeeds, and raises IOError exactly
\* when three invocations failed with IOError.
C19_BoundedRetries ==
    /\ writes <= max_retries + 1
    /\ ioErrors <= writes
    /\ (spc = "writing" /\ writes > 0) => sinceWrite = interval
    /\ spc \in {"writing", "done", "raised"} => slept = interval * (sloop - 1)
    /\ spc = "writing" => (writes = sloop - 1 /\ ioErrors = writes)
    /\ spc = "done" => (writes = ioErrors + 1 /\ sinceWrite = 0)
    /\ spc = "raised" => (ioErrors = max_retries + 1 /\ writes = ioErrors)
    /\ (spc \in {"done", "raised"} /\ ioErrors = max_retries + 1) => spc = "raised"

\* the third invocation succeeded after two IOErrors and two pauses
C19_Witness ==
    /\ spc = "done"
    /\ writes = 3
    /\ ioErrors = 2
    /\ slept = 2 * interval
    /\ Len(data_list) > 0

\* C20: TEXT_SIMILARITY(s, s) returns 1.0 for every string s, the empty
\* string included.
C20_IdenticalIsOne ==
    (simResult # NotComputed /\ simResponse = simAnswer) =>
        /\ simResult.status = "value"
        /\ simResult.num = simResult.den

\* the strings one unit-cost edit away from s: a character deleted, a
\* character replaced, or a character inserted (up to length MaxStr)
Edits(s) ==
    {[j \in 1..(Len(s) - 1) |-> IF j < i THEN s[j] ELSE s[j + 1]] : i \in 1..Len(s)}
    \cup {[s EXCEPT ![i] = c] : i \in 1..Len(s), c \in {"a", "b"}}
    \cup (IF Len(s) < MaxStr
          THEN {[j \in 1..(Len(s) + 1) |->
                    IF j < i THEN s[j] ELSE IF j = i THEN c ELSE s[j - 1]] :
                  i \in 1..(Len(s) + 1), c \in {"a", "b"}}
          ELSE {})

RECURSIVE StepsTo(_, _, _)
\* the Levenshtein distance: the least number of edits that lead from a
\* string of reached, k edits away from the start, to target
StepsTo(reached, target, k) ==
    IF target \in reached THEN k
    ELSE StepsTo(reached \cup UNION {Edits(s) : s \in reached}, target, k + 1)

\* C28: the last cell of the cost matrix of TEXT_SIMILARITY(r, a) is the
\* Levenshtein distance of r and a, it is at most max(len(r), len(a)), and
\* the call returns 1 - distance / max(len(r), len(a)), for all strings
\* over {a, b} up to length MaxStr; for "kitten" and "sitting" the distance
\* is 3 and the length 7.
C28_LevenshteinRatio ==
    simResult # NotComputed =>
        LET ROWS == Len(simResponse)
            COLUMNS == Len(simAnswer)
            longest == IF ROWS > COLUMNS THEN ROWS ELSE COLUMNS
            distance == operation_matrix(simResponse, simAnswer, ROWS, COLUMNS)
        IN /\ longest <= MaxStr => distance = StepsTo({simResponse}, simAnswer, 0)
           /\ longest > MaxStr /\ ROWS = 6 /\ COLUMNS = 7 => (distance = 3 /\ longest = 7)
           /\ distance <= longest
           /\ simResult = [status |-> "value", num |-> longest - distance, den |-> longest]

\* =================================================================
\* Properties of MODEL_SCORING
\* =================================================================
\* the judge model replied with a text
Replied == msResult # NotComputed /\ msOutcome.shape = "chat"

\* the reply without its reasoning preamble: what follows the last "</think>"
AfterThink(text) ==
    LET closing == {i \in 1..Len(text) : text[i] = "</think>"}
    IN IF closing = {} THEN text
       ELSE SubSeq(text, (CHOOSE x \in closing : \A y \in closing : x >= y) + 1, Len(text))

\* C21: when the reply of the judge model has a reasoning preamble closed
\* by "</think>", the score MODEL_SCORING returns is the one extracted from
\* what follows the delimiter: no digit of the preamble decides it.
C21_PreambleDiscarded ==
    (Replied /\ AfterThink(msOutcome.content) # msOutcome.content) =>
        msResult = MODEL_SCORING(StrResult(AfterThink(msOutcome.content)))

\* the binary digit that stands alone in the reply as its first number, if any
IsolatedDigit ==
    IF msOutcome.shape # "chat" THEN <<>>
    ELSE LET first == pick_first_numbers_if_independent(msOutcome.content)
         IN IF first \in {<<"0">>, <<"1">>} THEN first ELSE <<>>

\* C22: for every reply of the judge model, and for a judge request that
\* failed, MODEL_SCORING returns 0.0, 1.0 or the judge-failure message and
\* never raises; the message exactly when no single binary digit can be
\* isolated from the reply, 0.0 exactly when that digit is 0.
C22_ZeroOneOrJudgeFailed ==
    (msResult # NotComputed /\ msPrompt # NoPrompt) =>
        /\ msResult \in {ScoreResult(0), ScoreResult(1), JudgeFailedResult}
        /\ msResult = JudgeFailedResult <=> IsolatedDigit = <<>>
        /\ msResult = ScoreResult(0) <=> IsolatedDigit = <<"0">>

\* C23: the scoring query built for a record has the preprocessed response
\* in its Response slot, the context in its Question slot and the
\* preprocessed answer in its Answer slot.
C23_PromptSlots ==
    msPrompt # NoPrompt =>
        /\ msPrompt.Response = msArgs.response
        /\ msPrompt.Question = msArgs.context
        /\ msPrompt.Answer = msArgs.answer

\* =================================================================
\* Properties of make_request_body
\* =================================================================
\* the keys make_request_body takes out of the bag for the transport and
\* for the messages
TransportKeys ==
    {"base_url", "api_url", "api_key", "system_prompt", "prompt_prefix", "prompt_suffix"}

\* the keys make_request_body writes itself
BuilderKeys == {"model", "stream"} \cup float_params \cup int_params

====
